---- MODULE Spec2Model ----
(***************************************************************************)
(* Model of the autoscaling controller of                                  *)
(* omnistrate-community/custom-auto-scaling-example:                       *)
(*   internal/autoscaler/autoscaler.go  (Autoscaler.ScaleToTarget,         *)
(*   waitForActiveState, scaleUp, scaleDown, GetStatus) and the capacity   *)
(*   provider it talks to through omnistrate_api.Client;                   *)
(*   cmd/controller.go (scaleHandler), internal/config (NewConfigFromEnv)  *)
(*   and the dry-run switch of omnistrate_api.ClientImpl.                  *)
(*                                                                         *)
(* Time is discrete.  Timestamps are kept as ages: lastActionTime.since is *)
(* time.Since(a.lastActionTime), saturated at CooldownDuration (the code   *)
(* only compares it with CooldownDuration), and lastActionTime.isZero is   *)
(* a.lastActionTime.IsZero().  The timers of waitForActiveState are kept   *)
(* the same way (time elapsed since time.After / time.NewTicker).          *)
(***************************************************************************)
EXTENDS Integers, FiniteSets, Sequences, TLC

\* ---------------------------------------------------------------- bounds
MaxTarget == 3
MaxStart == 2
MaxSteps == 2
MaxCooldown == 2
MaxTimeout == 2
MaxInterval == 3

\* the goroutines that call ScaleToTarget concurrently
Callers == {"c1", "c2"}
NoOne == "none"
\* the goroutines that call GetStatus
StatusCallers == {"s1"}

\* omnistrate_api.Status
ACTIVE == "ACTIVE"
STARTING == "STARTING"
PAUSED == "PAUSED"
FAILED == "FAILED"
UNKNOWN == "UNKNOWN"
Statuses == {ACTIVE, STARTING, PAUSED, FAILED, UNKNOWN}

\* the errors ScaleToTarget returns (nil is OK)
OK == "OK"
ErrInProgress == "scaling operation already in progress"
ErrFailedState == "instance is in FAILED state"
ErrTimeout == "timeout waiting for instance to become ACTIVE"
ErrCancelled == "context canceled"
ErrAddCapacity == "failed to add capacity"
ErrRemoveCapacity == "failed to remove capacity"
\* the error of a failed GetCurrentCapacity, as the client returns it
ErrProvider == "API error"
\* ScaleToTarget is left by a panic of the client it calls
ErrPanic == "panic"
NoResult == "pending"

Min2(a, b) == IF a <= b THEN a ELSE b
Abs(a) == IF a < 0 THEN 0 - a ELSE a

VARIABLES
    config,             \* a.config (immutable after construction)
    lastActionTime,     \* a.lastActionTime, as [isZero, since]
    scalingInProgress,  \* a.scalingInProgress
    targetCapacity,     \* a.targetCapacity
    mu,                 \* a.mu: the goroutine holding the write lock
    capacity,           \* the provider's CurrentCapacity
    pc,                 \* where each caller is in ScaleToTarget
    target,             \* the targetCapacity argument of each call
    ctxDone,            \* whether the call's ctx is cancelled
    currentCapacity,    \* the local currentCapacity.CurrentCapacity
    amount,             \* the amount of the outstanding Add/Remove request
    sleepLeft,          \* what is left of time.Sleep(waitTime)
    pollTimer,          \* time since time.After(maxWaitTime), saturated
    tickerPhase,        \* time since the ticker last fired
    tickerC,            \* whether a tick is buffered in ticker.C
    result,             \* the error the call is returning
    \* history of the current call and of the instance
    startCapacity,      \* provider capacity when the call was admitted
    firstObserved,      \* capacity returned by the call's first health poll
    lastReadStatus,     \* outcome of the call's latest GetCurrentCapacity
    lastReadCapacity,   \* capacity reported by that read
    readFresh,          \* an ACTIVE read happened and no mutation was issued since
    reads,              \* GetCurrentCapacity calls of this call (saturated)
    added,              \* sum of the amounts of the call's successful adds
    removed,            \* sum of the amounts of the call's successful removes
    mutations,          \* Add/Remove requests issued by this call (saturated)
    sinceMutation,      \* age of the instance's last successful mutation
    rejectedAgainst,    \* a.targetCapacity when the guard rejected the call
    lastConverged,      \* target of the last call that returned success,
                        \* forgotten at the next successful mutation
    \* GetStatus
    muReaders,          \* a.mu: the goroutines holding the read lock
    spc,                \* where each caller is in GetStatus
    capacityRead,       \* the local capacity of GetStatus
    status,             \* the *ScalingStatus GetStatus returns
    statusErr,          \* the error GetStatus returns
    statusReads,        \* GetCurrentCapacity calls of this GetStatus call
    \* scaleHandler (cmd/controller.go)
    hpc,                \* where the handler of a POST /scale request is
    req,                \* the request it serves
    scaleErr,           \* the error ScaleToTarget returned to it
    httpStatus,         \* the status code it wrote with w.WriteHeader
    \* ClientImpl (omnistrate_api)
    cpc,                \* where a call of a ClientImpl method is
    clientReq,          \* the method called and its amount argument
    clientResp,         \* what the method returns
    sent,               \* HTTP requests this call has sent to the provider
    \* NewConfigFromEnv (config)
    env,                \* the process environment, "" for an unset variable
    loaded              \* what NewConfigFromEnv returned

autoscalerVars == <<config, lastActionTime, scalingInProgress, targetCapacity, mu>>
providerVars == <<capacity>>
callVars == <<pc, target, ctxDone, currentCapacity, amount, result>>
timerVars == <<sleepLeft, pollTimer, tickerPhase, tickerC>>
historyVars == <<startCapacity, firstObserved, lastReadStatus, lastReadCapacity,
                 readFresh, reads, added, removed, mutations, sinceMutation,
                 rejectedAgainst, lastConverged>>
statusVars == <<muReaders, spc, capacityRead, status, statusErr, statusReads>>
handlerVars == <<hpc, req, scaleErr, httpStatus>>
\* the state of the program around the Autoscaler
clientVars == <<cpc, clientReq, clientResp, sent>>
envVars == <<env, loaded>>
outerVars == <<handlerVars, clientVars, envVars>>
innerVars == <<autoscalerVars, providerVars, callVars, timerVars, historyVars, statusVars>>
vars == <<innerVars, outerVars>>

\* ------------------------------------------------------------ saturation
\* the provider capacity never exceeds MaxCapacity: it starts at most at
\* MaxStart and an add is only requested below a target, for Steps units
MaxCapacity ==
    IF MaxTarget + MaxSteps - 1 > MaxStart THEN MaxTarget + MaxSteps - 1
                                           ELSE MaxStart
\* history sums are kept up to SumCap: larger than any |target - start|
SumCap == MaxCapacity + 1
Sat(n, cap) == Min2(n, cap)
NoCapacity == 0 - 1
NoStatus == "NONE"
ReadError == "ERROR"
NoRead == [Status |-> NoStatus, CurrentCapacity |-> NoCapacity]
NoSnapshot == [Nil |-> TRUE]

\* ----------------------------------------------------------------- Init
ZeroTime == [isZero |-> TRUE, since |-> 0]
NoRequest == [Nil |-> TRUE]
NoError == [kind |-> OK, msg |-> ""]

\* no request is being served
InitHandler ==
    /\ hpc = "idle"
    /\ req = NoRequest
    /\ scaleErr = NoError
    /\ httpStatus = 0

\* the configurations with DryRun in dry; the Autoscaler is modelled with
\* the Client interface, whose answers are inputs, so its configurations
\* leave DryRun off
ConfigsWith(dry) ==
    [CooldownDuration : {0, MaxCooldown},
     Steps : 1..MaxSteps,
     WaitForActiveTimeout : {MaxTimeout},
     WaitForActiveCheckInterval : {1},
     DryRun : dry]

Configs == ConfigsWith({FALSE})

\* no ClientImpl method is being called
NoCall == [Nil |-> TRUE]
NoResponse == [Nil |-> TRUE]

InitClient ==
    /\ cpc = "idle"
    /\ clientReq = NoCall
    /\ clientResp = NoResponse
    /\ sent = 0

\* the variables NewConfigFromEnv reads, and DRY_RUN, which the README
\* documents
EnvNames ==
    {"AUTOSCALER_COOLDOWN", "AUTOSCALER_TARGET_RESOURCE", "AUTOSCALER_STEPS",
     "AUTOSCALER_DRY_RUN", "AUTOSCALER_WAIT_FOR_ACTIVE_TIMEOUT",
     "AUTOSCALER_WAIT_FOR_ACTIVE_CHECK_INTERVAL", "DRY_RUN"}
NotLoaded == [Nil |-> TRUE]

\* the process starts with none of the variables set and no configuration
InitEnv ==
    /\ env = [k \in EnvNames |-> ""]
    /\ loaded = NotLoaded

InitOf(configs) ==
    /\ config \in configs
    /\ lastActionTime = ZeroTime
    /\ scalingInProgress = FALSE
    /\ targetCapacity = 0
    /\ mu = NoOne
    /\ capacity \in 0..MaxStart
    /\ pc = [p \in Callers |-> "idle"]
    /\ target = [p \in Callers |-> 0]
    /\ ctxDone = [p \in Callers |-> FALSE]
    /\ currentCapacity = [p \in Callers |-> 0]
    /\ amount = [p \in Callers |-> 0]
    /\ sleepLeft = [p \in Callers |-> 0]
    /\ pollTimer = [p \in Callers |-> 0]
    /\ tickerPhase = [p \in Callers |-> 0]
    /\ tickerC = [p \in Callers |-> FALSE]
    /\ result = [p \in Callers |-> NoResult]
    /\ startCapacity = [p \in Callers |-> NoCapacity]
    /\ firstObserved = [p \in Callers |-> NoCapacity]
    /\ lastReadStatus = [p \in Callers |-> NoStatus]
    /\ lastReadCapacity = [p \in Callers |-> NoCapacity]
    /\ readFresh = [p \in Callers |-> FALSE]
    /\ reads = [p \in Callers |-> 0]
    /\ added = [p \in Callers |-> 0]
    /\ removed = [p \in Callers |-> 0]
    /\ mutations = [p \in Callers |-> 0]
    /\ sinceMutation = ZeroTime
    /\ rejectedAgainst = [p \in Callers |-> NoCapacity]
    /\ lastConverged = NoCapacity
    /\ muReaders = {}
    /\ spc = [g \in StatusCallers |-> "idle"]
    /\ capacityRead = [g \in StatusCallers |-> NoRead]
    /\ status = [g \in StatusCallers |-> NoSnapshot]
    /\ statusErr = [g \in StatusCallers |-> NoResult]
    /\ statusReads = [g \in StatusCallers |-> 0]
    /\ InitHandler
    /\ InitClient
    /\ InitEnv

Init == InitOf(Configs)

\* ------------------------------------------------- pure parts of the code
\* autoscaler.go:56  if a.scalingInProgress { ... return error }
GuardAdmitsAlways(inProgress) == FALSE
GuardRejects(inProgress) == inProgress

\* autoscaler.go:57-58  the rejected call unlocks and returns at once; it
\* does not go on into the loop
RejectedPcQueued == "loop"
RejectedPcDeferred == "deferLock"
RejectedPc == "reject"

\* autoscaler.go:62  a.mu.Unlock() on the admitted path: who holds a.mu
\* when the call enters the loop
HolderAfterGuardKept(p) == p
HolderAfterGuard(p) == NoOne

\* autoscaler.go:60-61  the run state an admitted call publishes
AdmittedTargetUnset(t) == 0
AdmittedTarget(t) == t

\* autoscaler.go:67-68  the run state the deferred function leaves
ClearedTargetStale(t) == t
ClearedTarget(t) == 0

\* autoscaler.go:65-70  the deferred function runs on every exit after
\* admission (return nil, return err, panic): where the call goes next
ExitPcOnlyOnSuccess(err) == IF err = OK THEN "deferLock" ELSE "idle"
ExitPc(err) == "deferLock"

\* autoscaler.go:147-150  a failed read in waitForActiveState: continue
ReadErrorOutcomeFatal == "fail"
ReadErrorOutcome == "continue"

\* autoscaler.go:135, 143  time.After(maxWaitTime) has fired
TimedOutNever(elapsed, maxWaitTime) == FALSE
TimedOut(elapsed, maxWaitTime) == elapsed >= maxWaitTime

\* autoscaler.go:143-144, 88-90  the error of a poll that timed out
TimeoutErrorFromRead(lastRead) ==
    IF lastRead = ReadError THEN ErrProvider ELSE ErrTimeout
TimeoutError(lastRead) == ErrTimeout

\* autoscaler.go:141-142, 88-90  ctx.Err() of a cancelled context, which
\* ScaleToTarget wraps with %w
CtxErrAsTimeout == ErrTimeout
CtxErr == ErrCancelled

\* autoscaler.go:136  time.NewTicker(checkInterval): whether a tick is
\* waiting in ticker.C when the ticker is made (the first tick is sent one
\* checkInterval later)
NewTickerCReady == TRUE
NewTickerC == FALSE

\* autoscaler.go:80-83  the time ScaleToTarget sleeps before polling
CooldownWaitNone(la, cooldown) == 0
CooldownWait(la, cooldown) ==
    IF ~la.isZero /\ la.since < cooldown THEN cooldown - la.since ELSE 0

\* autoscaler.go:153-162  what waitForActiveState does with a read status
PollOutcomeAnyStatus(st) ==
    IF st = FAILED THEN "fail" ELSE "return"
PollOutcomeWaitingFails(st) ==
    IF st = ACTIVE THEN "return" ELSE "fail"
PollOutcomeIgnoreFailed(st) ==
    IF st = ACTIVE THEN "return" ELSE "continue"
PollOutcome(st) ==
    IF st = ACTIVE THEN "return"
    ELSE IF st = FAILED THEN "fail"
    ELSE "continue"

\* autoscaler.go:97  if currentCapacity.CurrentCapacity == targetCapacity
AtTargetNever(cur, tgt) == FALSE
AtTargetOvershot(cur, tgt) == cur > tgt
AtTarget(cur, tgt) == cur = tgt

\* autoscaler.go:103-107  scaleUp below the target, scaleDown otherwise
ScaleDirectionReversed(cur, tgt) == IF cur < tgt THEN "scaleDown" ELSE "scaleUp"
ScaleDirection(cur, tgt) == IF cur < tgt THEN "scaleUp" ELSE "scaleDown"

\* autoscaler.go:173  AddCapacity(ctx, a.config.TargetResource, a.config.Steps)
ScaleUpAmountOver(cur, steps) == steps + 1
ScaleUpAmount(cur, steps) == steps

\* autoscaler.go:185-188  removedCapacity, capped at the current capacity
ScaleDownAmountUncapped(cur, steps) == steps
ScaleDownAmount(cur, steps) == IF cur <= steps THEN cur ELSE steps

\* autoscaler.go:174-176, 194-196  the error scaleUp / scaleDown return when
\* the provider call failed; at is "scaleUp" or "scaleDown"
ScaleErrorUndirected(at) == ErrAddCapacity
ScaleError(at) == IF at = "scaleUp" THEN ErrAddCapacity ELSE ErrRemoveCapacity

\* autoscaler.go:109-116  after scaleUp / scaleDown: return the error, or go
\* on to record the time of the action
AfterScaleUnchecked(ok, err) == "record"
AfterScale(ok, err) == IF ok THEN "record" ELSE ExitPc(err)

\* ------------------------------------------------------------- ScaleToTarget
\* the locals of a call and its history are dropped when it returns
ClearLocals(p) ==
    /\ ctxDone' = [ctxDone EXCEPT ![p] = FALSE]
    /\ currentCapacity' = [currentCapacity EXCEPT ![p] = 0]
    /\ amount' = [amount EXCEPT ![p] = 0]
    /\ startCapacity' = [startCapacity EXCEPT ![p] = NoCapacity]
    /\ firstObserved' = [firstObserved EXCEPT ![p] = NoCapacity]
    /\ lastReadStatus' = [lastReadStatus EXCEPT ![p] = NoStatus]
    /\ lastReadCapacity' = [lastReadCapacity EXCEPT ![p] = NoCapacity]
    /\ readFresh' = [readFresh EXCEPT ![p] = FALSE]
    /\ reads' = [reads EXCEPT ![p] = 0]
    /\ added' = [added EXCEPT ![p] = 0]
    /\ removed' = [removed EXCEPT ![p] = 0]
    /\ mutations' = [mutations EXCEPT ![p] = 0]

\* lines 53-55: a caller invokes ScaleToTarget(ctx, t); its first statement
\* is a.mu.Lock(), which returns once the lock is free
Call(p, t) ==
    /\ pc[p] = "idle"
    /\ mu = NoOne
    /\ muReaders = {}
    /\ mu' = p
    /\ pc' = [pc EXCEPT ![p] = "guard"]
    /\ target' = [target EXCEPT ![p] = t]
    /\ UNCHANGED <<config, lastActionTime, scalingInProgress, targetCapacity,
                   providerVars, timerVars, historyVars,
                   ctxDone, currentCapacity, amount, result>>
    /\ UNCHANGED <<statusVars, outerVars>>

\* the caller cancels the context of its call; the code looks at ctx only
\* in the select of waitForActiveState, so cancellation is taken at the
\* blocking points of the call
Cancel(p) ==
    /\ pc[p] \in {"sleep", "poll"}
    /\ ~ctxDone[p]
    /\ ctxDone' = [ctxDone EXCEPT ![p] = TRUE]
    /\ UNCHANGED <<autoscalerVars, providerVars, timerVars, historyVars,
                   pc, target, currentCapacity, amount, result>>
    /\ UNCHANGED <<statusVars, outerVars>>

\* lines 56-62: the check of scalingInProgress under the lock, and Unlock
\* (a rejected call does not use its argument again)
Guard(p) ==
    /\ pc[p] = "guard"
    /\ mu = p
    /\ IF GuardRejects(scalingInProgress)
       THEN /\ mu' = NoOne
            /\ pc' = [pc EXCEPT ![p] = RejectedPc]
            /\ result' = [result EXCEPT ![p] = ErrInProgress]
            /\ target' = [target EXCEPT ![p] = 0]
            /\ rejectedAgainst' = [rejectedAgainst EXCEPT ![p] = targetCapacity]
            /\ UNCHANGED <<scalingInProgress, targetCapacity, startCapacity>>
       ELSE /\ mu' = HolderAfterGuard(p)
            /\ scalingInProgress' = TRUE
            /\ targetCapacity' = AdmittedTarget(target[p])
            /\ pc' = [pc EXCEPT ![p] = "loop"]
            /\ startCapacity' = [startCapacity EXCEPT ![p] = capacity]
            /\ UNCHANGED <<target, result, rejectedAgainst>>
    /\ UNCHANGED <<config, lastActionTime, providerVars, timerVars,
                   ctxDone, currentCapacity, amount,
                   firstObserved, lastReadStatus, lastReadCapacity, readFresh,
                   reads, added, removed, mutations, sinceMutation, lastConverged>>
    /\ UNCHANGED <<statusVars, outerVars>>

\* line 58: the rejected call formats the error from a.targetCapacity, read
\* after the lock was released, and returns (no defer was registered)
Reject(p) ==
    /\ pc[p] = "reject"
    /\ pc' = [pc EXCEPT ![p] = "idle"]
    /\ result' = [result EXCEPT ![p] = NoResult]
    /\ rejectedAgainst' = [rejectedAgainst EXCEPT ![p] = NoCapacity]
    /\ UNCHANGED <<autoscalerVars, providerVars, timerVars,
                   target, ctxDone, currentCapacity, amount,
                   startCapacity, firstObserved, lastReadStatus, lastReadCapacity,
                   readFresh, reads, added, removed, mutations, sinceMutation,
                   lastConverged>>
    /\ UNCHANGED <<statusVars, outerVars>>

\* waitForActiveState entry, lines 133-137: time.After and time.NewTicker
StartPoll(p) ==
    /\ pollTimer' = [pollTimer EXCEPT ![p] = 0]
    /\ tickerPhase' = [tickerPhase EXCEPT ![p] = 0]
    /\ tickerC' = [tickerC EXCEPT ![p] = NewTickerC]

\* leaving waitForActiveState: defer ticker.Stop(), the timers are dropped
StopPoll(p) ==
    /\ pollTimer' = [pollTimer EXCEPT ![p] = 0]
    /\ tickerPhase' = [tickerPhase EXCEPT ![p] = 0]
    /\ tickerC' = [tickerC EXCEPT ![p] = FALSE]

\* lines 76-84: read lastActionTime under the read lock, then either sleep
\* for the rest of the cooldown or go on to waitForActiveState
Loop(p) ==
    /\ pc[p] = "loop"
    /\ mu = NoOne
    /\ LET waitTime == CooldownWait(lastActionTime, config.CooldownDuration)
       IN IF waitTime > 0
          THEN /\ pc' = [pc EXCEPT ![p] = "sleep"]
               /\ sleepLeft' = [sleepLeft EXCEPT ![p] = waitTime]
               /\ UNCHANGED <<pollTimer, tickerPhase, tickerC>>
          ELSE /\ pc' = [pc EXCEPT ![p] = "poll"]
               /\ StartPoll(p)
               /\ UNCHANGED sleepLeft
    /\ UNCHANGED <<autoscalerVars, providerVars, historyVars,
                   target, ctxDone, currentCapacity, amount, result>>
    /\ UNCHANGED <<statusVars, outerVars>>

\* line 83: time.Sleep(waitTime) returns; line 87 enters waitForActiveState
Wake(p) ==
    /\ pc[p] = "sleep"
    /\ sleepLeft[p] = 0
    /\ pc' = [pc EXCEPT ![p] = "poll"]
    /\ StartPoll(p)
    /\ UNCHANGED <<autoscalerVars, providerVars, historyVars, sleepLeft,
                   target, ctxDone, currentCapacity, amount, result>>
    /\ UNCHANGED <<statusVars, outerVars>>

\* an exit of ScaleToTarget after admission: the deferred function runs next
Exit(p, err) ==
    /\ result' = [result EXCEPT ![p] = err]
    /\ pc' = [pc EXCEPT ![p] = ExitPc(err)]

\* lines 141-142, 88-90: case <-ctx.Done()
PollCancelled(p) ==
    /\ pc[p] = "poll"
    /\ ctxDone[p]
    /\ Exit(p, CtxErr)
    /\ StopPoll(p)
    /\ UNCHANGED <<autoscalerVars, providerVars, sleepLeft, historyVars,
                   target, ctxDone, currentCapacity, amount>>
    /\ UNCHANGED <<statusVars, outerVars>>

\* lines 143-144, 88-90: case <-timeout
PollTimeout(p) ==
    /\ pc[p] = "poll"
    /\ TimedOut(pollTimer[p], config.WaitForActiveTimeout)
    /\ Exit(p, TimeoutError(lastReadStatus[p]))
    /\ StopPoll(p)
    /\ UNCHANGED <<autoscalerVars, providerVars, sleepLeft, historyVars,
                   target, ctxDone, currentCapacity, amount>>
    /\ UNCHANGED <<statusVars, outerVars>>

\* lines 145-146: case <-ticker.C, the read is sent to the provider
PollTick(p) ==
    /\ pc[p] = "poll"
    /\ tickerC[p]
    /\ tickerC' = [tickerC EXCEPT ![p] = FALSE]
    /\ pc' = [pc EXCEPT ![p] = "read"]
    /\ reads' = [reads EXCEPT ![p] = Sat(reads[p] + 1, 1)]
    /\ UNCHANGED <<autoscalerVars, providerVars, sleepLeft, pollTimer, tickerPhase,
                   target, ctxDone, currentCapacity, amount, result,
                   startCapacity, firstObserved, lastReadStatus, lastReadCapacity,
                   readFresh, added, removed, mutations, sinceMutation,
                   rejectedAgainst, lastConverged>>
    /\ UNCHANGED <<statusVars, outerVars>>

\* lines 146-162: GetCurrentCapacity returns resp: an error (ReadError), or
\* a status together with the capacity cap
ReadReturnOf(p, resp, cap) ==
    /\ pc[p] = "read"
    /\ lastReadStatus' = [lastReadStatus EXCEPT ![p] = resp]
    /\ lastReadCapacity' = [lastReadCapacity EXCEPT ![p] =
          IF resp = ReadError THEN NoCapacity ELSE cap]
    /\ LET outcome == IF resp = ReadError THEN ReadErrorOutcome
                                          ELSE PollOutcome(resp)
       IN CASE outcome = "return" ->
                 /\ currentCapacity' = [currentCapacity EXCEPT ![p] = cap]
                 /\ firstObserved' = [firstObserved EXCEPT ![p] =
                       IF @ = NoCapacity THEN cap ELSE @]
                 /\ readFresh' = [readFresh EXCEPT ![p] = TRUE]
                 /\ pc' = [pc EXCEPT ![p] = "decide"]
                 /\ StopPoll(p)
                 /\ UNCHANGED <<result, sleepLeft>>
            [] outcome = "fail" ->
                 /\ Exit(p, IF resp = ReadError THEN ErrProvider ELSE ErrFailedState)
                 /\ StopPoll(p)
                 /\ UNCHANGED <<currentCapacity, firstObserved, readFresh, sleepLeft>>
            [] OTHER ->
                 /\ pc' = [pc EXCEPT ![p] = "poll"]
                 /\ UNCHANGED <<currentCapacity, result, firstObserved,
                                readFresh, timerVars>>
    /\ UNCHANGED <<autoscalerVars, providerVars,
                   target, ctxDone, amount,
                   startCapacity, reads, added, removed, mutations, sinceMutation,
                   rejectedAgainst, lastConverged>>
    /\ UNCHANGED <<statusVars, outerVars>>

\* the client passes on what the provider reports now: a status and the
\* provider's capacity
ReadReturn(p, resp) == ReadReturnOf(p, resp, capacity)

\* lines 96-107: stop at the target, else issue AddCapacity or RemoveCapacity
Decide(p) ==
    /\ pc[p] = "decide"
    /\ IF AtTarget(currentCapacity[p], target[p])
       THEN /\ Exit(p, OK)
            /\ UNCHANGED <<amount, mutations, readFresh>>
       ELSE /\ IF ScaleDirection(currentCapacity[p], target[p]) = "scaleUp"
               THEN /\ pc' = [pc EXCEPT ![p] = "scaleUp"]
                    /\ amount' = [amount EXCEPT ![p] =
                          ScaleUpAmount(currentCapacity[p], config.Steps)]
               ELSE /\ pc' = [pc EXCEPT ![p] = "scaleDown"]
                    /\ amount' = [amount EXCEPT ![p] =
                          ScaleDownAmount(currentCapacity[p], config.Steps)]
            /\ mutations' = [mutations EXCEPT ![p] = Sat(@ + 1, 1)]
            /\ readFresh' = [readFresh EXCEPT ![p] = FALSE]
            /\ UNCHANGED result
    /\ UNCHANGED <<autoscalerVars, providerVars, timerVars,
                   target, ctxDone, currentCapacity,
                   startCapacity, firstObserved, lastReadStatus, lastReadCapacity,
                   reads, added, removed, sinceMutation,
                   rejectedAgainst, lastConverged>>
    /\ UNCHANGED <<statusVars, outerVars>>

\* lines 173-176, 193-196, 109-111: the provider answers the Add/Remove
\* request: it applies the amount exactly (ok) or fails and changes nothing
MutateReturn(p, ok) ==
    /\ pc[p] \in {"scaleUp", "scaleDown"}
    /\ IF ok
       THEN /\ capacity' = IF pc[p] = "scaleUp" THEN capacity + amount[p]
                                              ELSE capacity - amount[p]
            /\ added' = [added EXCEPT ![p] =
                  IF pc[p] = "scaleUp" THEN Sat(@ + amount[p], SumCap) ELSE @]
            /\ removed' = [removed EXCEPT ![p] =
                  IF pc[p] = "scaleDown" THEN Sat(@ + amount[p], SumCap) ELSE @]
            /\ sinceMutation' = [isZero |-> FALSE, since |-> 0]
            /\ lastConverged' = NoCapacity
            /\ pc' = [pc EXCEPT ![p] = AfterScale(TRUE, OK)]
            /\ UNCHANGED result
       ELSE /\ result' = [result EXCEPT ![p] = ScaleError(pc[p])]
            /\ pc' = [pc EXCEPT ![p] = AfterScale(FALSE, ScaleError(pc[p]))]
            /\ UNCHANGED <<capacity, added, removed, sinceMutation, lastConverged>>
    /\ UNCHANGED <<autoscalerVars, timerVars,
                   target, ctxDone, currentCapacity, amount,
                   startCapacity, firstObserved, lastReadStatus, lastReadCapacity,
                   readFresh, reads, mutations, rejectedAgainst>>
    /\ UNCHANGED <<statusVars, outerVars>>

\* a provider call of ScaleToTarget panics (the client is an interface; the
\* mock client of the tests panics on an unexpected call): the deferred
\* ticker.Stop and the deferred function of ScaleToTarget run, and the panic
\* goes on to the caller
Panic(p) ==
    /\ pc[p] \in {"read", "scaleUp", "scaleDown"}
    /\ Exit(p, ErrPanic)
    /\ StopPoll(p)
    /\ UNCHANGED <<autoscalerVars, providerVars, sleepLeft, historyVars,
                   target, ctxDone, currentCapacity, amount>>
    /\ UNCHANGED <<statusVars, outerVars>>

\* lines 114-116: a.lastActionTime = time.Now() under the write lock; the
\* iteration ends and its locals (currentCapacity, err) go out of scope
Record(p) ==
    /\ pc[p] = "record"
    /\ mu = NoOne
    /\ muReaders = {}
    /\ lastActionTime' = [isZero |-> FALSE, since |-> 0]
    /\ pc' = [pc EXCEPT ![p] = "loop"]
    /\ currentCapacity' = [currentCapacity EXCEPT ![p] = 0]
    /\ amount' = [amount EXCEPT ![p] = 0]
    /\ lastReadStatus' = [lastReadStatus EXCEPT ![p] = NoStatus]
    /\ lastReadCapacity' = [lastReadCapacity EXCEPT ![p] = NoCapacity]
    /\ UNCHANGED <<config, scalingInProgress, targetCapacity, mu,
                   providerVars, timerVars, target, ctxDone, result,
                   startCapacity, firstObserved, readFresh, reads, added,
                   removed, mutations, sinceMutation,
                   rejectedAgainst, lastConverged>>
    /\ UNCHANGED <<statusVars, outerVars>>

\* line 66: the deferred function takes the write lock
DeferLock(p) ==
    /\ pc[p] = "deferLock"
    /\ mu = NoOne
    /\ muReaders = {}
    /\ mu' = p
    /\ pc' = [pc EXCEPT ![p] = "deferUnlock"]
    /\ UNCHANGED <<config, lastActionTime, scalingInProgress, targetCapacity,
                   providerVars, timerVars, historyVars,
                   target, ctxDone, currentCapacity, amount, result>>
    /\ UNCHANGED <<statusVars, outerVars>>

\* lines 67-69: it clears the flag and the target and unlocks; the call
\* returns its result to the caller
DeferUnlock(p) ==
    /\ pc[p] = "deferUnlock"
    /\ mu = p
    /\ scalingInProgress' = FALSE
    /\ targetCapacity' = ClearedTarget(targetCapacity)
    /\ mu' = NoOne
    /\ pc' = [pc EXCEPT ![p] = "idle"]
    /\ target' = [target EXCEPT ![p] = 0]
    /\ result' = [result EXCEPT ![p] = NoResult]
    /\ lastConverged' = IF result[p] = OK THEN target[p] ELSE lastConverged
    /\ ClearLocals(p)
    /\ UNCHANGED <<config, lastActionTime, providerVars, timerVars, sinceMutation,
                   rejectedAgainst>>
    /\ UNCHANGED <<statusVars, outerVars>>

\* ---------------------------------------------------------------- GetStatus
\* autoscaler.go:223-229  the cooldown fields of the snapshot
InCooldownPeriodOfZeroTime(la, cooldown) == la.since < cooldown
InCooldownPeriod(la, cooldown) == ~la.isZero /\ la.since < cooldown
CooldownRemaining(la, cooldown) ==
    IF InCooldownPeriod(la, cooldown) THEN cooldown - la.since ELSE 0

\* autoscaler.go:211-229  the ScalingStatus built under the read lock from
\* the capacity read before and the run state as it is now
ScalingStatusOf(read) ==
    [CurrentCapacity |-> read.CurrentCapacity,
     Status |-> read.Status,
     TargetCapacity |-> targetCapacity,
     ScalingInProgress |-> scalingInProgress,
     LastActionTime |-> lastActionTime,
     InCooldownPeriod |-> InCooldownPeriod(lastActionTime, config.CooldownDuration),
     CooldownRemaining |-> CooldownRemaining(lastActionTime, config.CooldownDuration)]

\* autoscaler.go:204-206  if err != nil { return nil, err }
GetStatusOnErrorRetry == "statusRead"
GetStatusOnError == "statusReturn"

\* what the capacity read of GetStatus can return: the status is copied
\* into the snapshot as it is (line 216), so ACTIVE and one other status
\* stand for all of them
StatusReadResponses == {ACTIVE, STARTING, ReadError}

\* line 203: GetStatus(ctx) is called; it sends its capacity read at once
GetStatusCall(g) ==
    /\ spc[g] = "idle"
    /\ spc' = [spc EXCEPT ![g] = "statusRead"]
    /\ statusReads' = [statusReads EXCEPT ![g] = 1]
    /\ UNCHANGED <<autoscalerVars, providerVars, callVars, timerVars, historyVars,
                   muReaders, capacityRead, status, statusErr>>
    /\ UNCHANGED outerVars

\* lines 203-206: the read returns resp: an error, which GetStatus returns
\* with a nil status, or the provider's status and capacity
GetStatusReadReturn(g, resp) ==
    /\ spc[g] = "statusRead"
    /\ IF resp = ReadError
       THEN /\ spc' = [spc EXCEPT ![g] = GetStatusOnError]
            /\ statusErr' = [statusErr EXCEPT ![g] =
                  IF GetStatusOnError = "statusReturn" THEN ErrProvider ELSE @]
            /\ statusReads' = [statusReads EXCEPT ![g] =
                  IF GetStatusOnError = "statusRead" THEN Sat(@ + 1, 2) ELSE @]
            /\ capacityRead' = [capacityRead EXCEPT ![g] =
                  [Status |-> ReadError, CurrentCapacity |-> NoCapacity]]
       ELSE /\ spc' = [spc EXCEPT ![g] = "statusRLock"]
            /\ capacityRead' = [capacityRead EXCEPT ![g] =
                  [Status |-> resp, CurrentCapacity |-> capacity]]
            /\ UNCHANGED <<statusErr, statusReads>>
    /\ UNCHANGED <<autoscalerVars, providerVars, callVars, timerVars, historyVars,
                   muReaders, status>>
    /\ UNCHANGED outerVars

\* lines 208-229: a.mu.RLock() returns once no writer holds the lock; the
\* snapshot is built while the read lock is held
GetStatusRLock(g) ==
    /\ spc[g] = "statusRLock"
    /\ mu = NoOne
    /\ muReaders' = muReaders \cup {g}
    /\ status' = [status EXCEPT ![g] = ScalingStatusOf(capacityRead[g])]
    /\ statusErr' = [statusErr EXCEPT ![g] = OK]
    /\ capacityRead' = [capacityRead EXCEPT ![g] = NoRead]
    /\ spc' = [spc EXCEPT ![g] = "statusReturn"]
    /\ UNCHANGED <<autoscalerVars, providerVars, callVars, timerVars, historyVars,
                   statusReads>>
    /\ UNCHANGED outerVars

\* lines 205, 209, 231: GetStatus returns (status, err) to its caller; the
\* deferred a.mu.RUnlock() has run if the read lock was taken
GetStatusReturn(g) ==
    /\ spc[g] = "statusReturn"
    /\ muReaders' = muReaders \ {g}
    /\ spc' = [spc EXCEPT ![g] = "idle"]
    /\ status' = [status EXCEPT ![g] = NoSnapshot]
    /\ statusErr' = [statusErr EXCEPT ![g] = NoResult]
    /\ statusReads' = [statusReads EXCEPT ![g] = 0]
    /\ capacityRead' = [capacityRead EXCEPT ![g] = NoRead]
    /\ UNCHANGED <<autoscalerVars, providerVars, callVars, timerVars, historyVars>>
    /\ UNCHANGED outerVars

\* ------------------------------------------------------------- scaleHandler
\* net/http status codes the handler writes
StatusOK == 200
StatusBadRequest == 400
StatusMethodNotAllowed == 405
StatusConflict == 409
StatusInternalServerError == 500

\* fmt's %d of a non-negative int
Digit == <<"0", "1", "2", "3", "4", "5", "6", "7", "8", "9">>
RECURSIVE Itoa(_)
Itoa(n) == IF n < 10 THEN Digit[n + 1] ELSE Itoa(n \div 10) \o Digit[(n % 10) + 1]

\* err.Error() of the errors ScaleToTarget returns: autoscaler.go:58 (tc is
\* a.targetCapacity as line 58 reads it), 89 with 142, 144, 159, and 110
\* with 175, 195
ErrorText(kind, tc) ==
    CASE kind = ErrInProgress ->
            "scaling operation already in progress to target capacity: " \o Itoa(tc)
      [] kind \in {ErrFailedState, ErrTimeout, ErrCancelled} ->
            "failed to wait for active state: " \o kind
      [] kind \in {ErrAddCapacity, ErrRemoveCapacity} ->
            "failed to scale: " \o kind \o ": " \o ErrProvider

ScaleToTargetErrors ==
    {[kind |-> k, msg |-> ErrorText(k, tc)] :
        k \in {ErrInProgress, ErrFailedState, ErrTimeout, ErrCancelled,
               ErrAddCapacity, ErrRemoveCapacity},
        tc \in 0..MaxTarget}

\* controller.go:100  len(errMsg) >= 34 && errMsg[:34] == "scaling operation
\* already in progress"
InProgressPrefixLen == 34
InProgressLiteral == "scaling operation already in progress"
IsInProgress(errMsg) ==
    /\ Len(errMsg) >= InProgressPrefixLen
    /\ SubSeq(errMsg, 1, InProgressPrefixLen) = InProgressLiteral

\* controller.go:119-124, 137-142  the status code of a failed scaling
ScaleFailureStatus(errMsg) ==
    IF IsInProgress(errMsg) THEN StatusConflict ELSE StatusInternalServerError

\* the requests to /scale: the method, whether the body decodes into a
\* ScaleRequest, and the targetCapacity it carries
Requests ==
    [Method : {"POST", "GET"}, ValidJSON : BOOLEAN,
     TargetCapacity : (0 - 1)..MaxTarget]

\* controller.go:47-89  the handler is entered: method check, decoding and
\* validation of the body, then the call of ScaleToTarget
ScaleHandler(r) ==
    /\ hpc = "idle"
    /\ req' = r
    /\ IF r.Method # "POST"
       THEN /\ httpStatus' = StatusMethodNotAllowed
            /\ hpc' = "done"
       ELSE IF ~r.ValidJSON \/ r.TargetCapacity < 0
       THEN /\ httpStatus' = StatusBadRequest
            /\ hpc' = "done"
       ELSE /\ hpc' = "scaling"
            /\ UNCHANGED httpStatus
    /\ UNCHANGED scaleErr
    /\ UNCHANGED <<innerVars, clientVars, envVars>>

\* controller.go:90-95, 153-158  ScaleToTarget returns e: nil is answered
\* with 200, an error makes the handler call GetStatus
ScaleToTargetReturn(e) ==
    /\ hpc = "scaling"
    /\ IF e = NoError
       THEN /\ httpStatus' = StatusOK
            /\ hpc' = "done"
            /\ UNCHANGED scaleErr
       ELSE /\ scaleErr' = e
            /\ hpc' = "failed"
            /\ UNCHANGED httpStatus
    /\ UNCHANGED req
    /\ UNCHANGED <<innerVars, clientVars, envVars>>

\* controller.go:95-151  GetStatus has returned (statusOK: without error,
\* which only selects the body of the response); the handler classifies
\* the error by its text and writes the status code
ScaleHandlerFailed(statusOK) ==
    /\ hpc = "failed"
    /\ httpStatus' = ScaleFailureStatus(scaleErr.msg)
    /\ hpc' = "done"
    /\ UNCHANGED <<req, scaleErr>>
    /\ UNCHANGED <<innerVars, clientVars, envVars>>

\* the handler returns and the response is sent
ScaleHandlerReturn ==
    /\ hpc = "done"
    /\ hpc' = "idle"
    /\ req' = NoRequest
    /\ scaleErr' = NoError
    /\ httpStatus' = 0
    /\ UNCHANGED <<innerVars, clientVars, envVars>>

\* ---------------------------------------------------------------- ClientImpl
GetCurrentCapacityOp == "GetCurrentCapacity"
AddCapacityOp == "AddCapacity"
RemoveCapacityOp == "RemoveCapacity"
ClientOps == {GetCurrentCapacityOp, AddCapacityOp, RemoveCapacityOp}

\* the zero value of omnistrate_api.Status
EmptyStatus == ""
\* client.go GetCurrentCapacity: CurrentCapacity of the dry-run response
DryRunCapacity == 10

\* what a method returns without a request: ResourceInstanceCapacity with
\* only ResourceAlias and CurrentCapacity set, or ResourceInstance with only
\* ResourceAlias set, and a nil error
CannedResponseActive(op) ==
    IF op = GetCurrentCapacityOp
    THEN [err |-> OK, Status |-> ACTIVE, CurrentCapacity |-> DryRunCapacity]
    ELSE [err |-> OK, Status |-> NoStatus, CurrentCapacity |-> NoCapacity]
CannedResponse(op) ==
    IF op = GetCurrentCapacityOp
    THEN [err |-> OK, Status |-> EmptyStatus, CurrentCapacity |-> DryRunCapacity]
    ELSE [err |-> OK, Status |-> NoStatus, CurrentCapacity |-> NoCapacity]

\* whether the method goes on to send an HTTP request: not in dry-run mode,
\* and not for an AddCapacity / RemoveCapacity of 0
SendsRequestOfZero(dry, op, n) == ~dry
SendsRequestInDryRun(dry, op, n) == op = GetCurrentCapacityOp \/ n # 0
SendsRequest(dry, op, n) == ~dry /\ (op = GetCurrentCapacityOp \/ n # 0)

\* a method of ClientImpl is called (n: capacityToBeAdded/Removed, 0 for a
\* read): it returns its canned response at once or sends its request
ClientCall(op, n) ==
    /\ cpc = "idle"
    /\ op = GetCurrentCapacityOp => n = 0
    /\ clientReq' = [op |-> op, amount |-> n]
    /\ IF SendsRequest(config.DryRun, op, n)
       THEN /\ cpc' = "sent"
            /\ sent' = 1
            /\ UNCHANGED clientResp
       ELSE /\ cpc' = "returned"
            /\ clientResp' = CannedResponse(op)
            /\ UNCHANGED sent
    /\ UNCHANGED <<innerVars, handlerVars, envVars>>

\* the provider answers the request: with an error, leaving the instance as
\* it is (it refuses a removal of more than there is and a capacity above
\* MaxCapacity), or by applying it and reporting the instance
ProviderAnswer(ok, st) ==
    /\ cpc = "sent"
    /\ LET op == clientReq.op
           n == clientReq.amount
           after == CASE op = AddCapacityOp -> capacity + n
                      [] op = RemoveCapacityOp -> capacity - n
                      [] OTHER -> capacity
       IN IF ok /\ after \in 0..MaxCapacity
          THEN /\ capacity' = after
               /\ clientResp' =
                     IF op = GetCurrentCapacityOp
                     THEN [err |-> OK, Status |-> st, CurrentCapacity |-> capacity]
                     ELSE [err |-> OK, Status |-> NoStatus, CurrentCapacity |-> NoCapacity]
          ELSE /\ UNCHANGED capacity
               /\ clientResp' = [err |-> ErrProvider, Status |-> NoStatus,
                                 CurrentCapacity |-> NoCapacity]
    /\ cpc' = "returned"
    /\ UNCHANGED <<clientReq, sent>>
    /\ UNCHANGED <<autoscalerVars, callVars, timerVars, historyVars, statusVars,
                   handlerVars, envVars>>

\* the method has returned to its caller
ClientReturn ==
    /\ cpc = "returned"
    /\ cpc' = "idle"
    /\ clientReq' = NoCall
    /\ clientResp' = NoResponse
    /\ sent' = 0
    /\ UNCHANGED <<innerVars, handlerVars, envVars>>

\* -------------------------------------------------------- NewConfigFromEnv
\* strconv.Atoi: an optional sign and one or more decimal digits
AllDigits(s) ==
    /\ Len(s) > 0
    /\ \A i \in 1..Len(s) : \E d \in 0..9 : SubSeq(s, i, i) = Digit[d + 1]
RECURSIVE DigitsValue(_)
DigitsValue(s) ==
    IF Len(s) = 0 THEN 0
    ELSE 10 * DigitsValue(SubSeq(s, 1, Len(s) - 1))
         + (CHOOSE d \in 0..9 : SubSeq(s, Len(s), Len(s)) = Digit[d + 1])
Atoi(s) ==
    LET signed == Len(s) > 0 /\ SubSeq(s, 1, 1) \in {"-", "+"}
        digits == IF signed THEN SubSeq(s, 2, Len(s)) ELSE s
    IN IF ~AllDigits(digits) THEN [ok |-> FALSE, val |-> 0]
       ELSE [ok |-> TRUE,
             val |-> IF signed /\ SubSeq(s, 1, 1) = "-"
                     THEN 0 - DigitsValue(digits) ELSE DigitsValue(digits)]

\* strconv.ParseBool
ParseBool(s) ==
    IF s \in {"1", "t", "T", "TRUE", "true", "True"}
    THEN [ok |-> TRUE, val |-> TRUE]
    ELSE IF s \in {"0", "f", "F", "FALSE", "false", "False"}
    THEN [ok |-> TRUE, val |-> FALSE]
    ELSE [ok |-> FALSE, val |-> FALSE]

\* config.go:22-25 and alike: the default of an unset (or empty) variable
OrDefault(s, default) == IF s = "" THEN default ELSE s

\* config.go:20-85  the (*Config, error) NewConfigFromEnv returns for the
\* environment e; durations are in seconds.  uint(steps) is the identity
\* for the step sizes of EnvValues, none of which is negative
ConfigOf(e) ==
    LET cooldown == Atoi(OrDefault(e["AUTOSCALER_COOLDOWN"], "300"))
        steps == Atoi(OrDefault(e["AUTOSCALER_STEPS"], "1"))
        dryRunStr == e["AUTOSCALER_DRY_RUN"]
        dryRun == IF dryRunStr = "" THEN [ok |-> TRUE, val |-> FALSE]
                                    ELSE ParseBool(dryRunStr)
        timeout == Atoi(OrDefault(e["AUTOSCALER_WAIT_FOR_ACTIVE_TIMEOUT"], "900"))
        interval ==
            Atoi(OrDefault(e["AUTOSCALER_WAIT_FOR_ACTIVE_CHECK_INTERVAL"], "30"))
        failed(msg) == [err |-> msg, cfg |-> NotLoaded]
    IN IF ~cooldown.ok THEN failed("invalid AUTOSCALER_COOLDOWN value")
       ELSE IF e["AUTOSCALER_TARGET_RESOURCE"] = ""
       THEN failed("AUTOSCALER_TARGET_RESOURCE environment variable is required")
       ELSE IF ~steps.ok THEN failed("invalid AUTOSCALER_STEPS value")
       ELSE IF ~dryRun.ok THEN failed("invalid AUTOSCALER_DRY_RUN value")
       ELSE IF ~timeout.ok
       THEN failed("invalid AUTOSCALER_WAIT_FOR_ACTIVE_TIMEOUT value")
       ELSE IF ~interval.ok
       THEN failed("invalid AUTOSCALER_WAIT_FOR_ACTIVE_CHECK_INTERVAL value")
       ELSE [err |-> OK,
             cfg |-> [CooldownDuration |-> cooldown.val,
                      TargetResource |-> e["AUTOSCALER_TARGET_RESOURCE"],
                      Steps |-> steps.val,
                      DryRun |-> dryRun.val,
                      WaitForActiveTimeout |-> timeout.val,
                      WaitForActiveCheckInterval |-> interval.val]]

\* the values the environment gives a variable
EnvValues(k) ==
    CASE k = "AUTOSCALER_TARGET_RESOURCE" -> {"db"}
      [] k = "AUTOSCALER_STEPS" -> {"0", "2", "many"}
      [] k = "AUTOSCALER_DRY_RUN" -> {"true", "false", "yes"}
      [] k = "DRY_RUN" -> {"true"}
      [] k = "AUTOSCALER_WAIT_FOR_ACTIVE_CHECK_INTERVAL" -> {"0", "1", "-1"}
      [] OTHER -> {"2"}

\* a variable is set in the environment before the controller starts
Setenv(k, v) ==
    /\ loaded = NotLoaded
    /\ env[k] = ""
    /\ env' = [env EXCEPT ![k] = v]
    /\ UNCHANGED loaded
    /\ UNCHANGED <<innerVars, handlerVars, clientVars>>

\* NewAutoscaler calls NewConfigFromEnv
NewConfigFromEnv ==
    /\ loaded = NotLoaded
    /\ loaded' = ConfigOf(env)
    /\ UNCHANGED env
    /\ UNCHANGED <<innerVars, handlerVars, clientVars>>

\* ------------------------------------------------------------ environment
Age(t, cap) == IF t.isZero THEN t ELSE [t EXCEPT !.since = Sat(@ + 1, cap)]

\* a step a caller can take without waiting for a timer: a goroutine that is
\* not blocked, or one blocked in the select of waitForActiveState with a
\* case ready (a tick, the timeout, ctx.Done)
Runnable(p) ==
    \/ pc[p] \in {"guard", "reject", "loop", "read", "decide", "scaleUp",
                  "scaleDown", "record", "deferLock", "deferUnlock"}
    \/ pc[p] = "sleep" /\ sleepLeft[p] = 0
    \/ /\ pc[p] = "poll"
       /\ \/ tickerC[p]
          \/ ctxDone[p]
          \/ TimedOut(pollTimer[p], config.WaitForActiveTimeout)

\* one unit of time passes.  prompt: goroutines are never
\* kept waiting while they can run (used for the liveness specification)
Tick(prompt) ==
    /\ prompt => \A p \in Callers : ~Runnable(p)
    /\ lastActionTime' = Age(lastActionTime, config.CooldownDuration)
    /\ sinceMutation' = Age(sinceMutation, config.CooldownDuration)
    /\ sleepLeft' = [p \in Callers |->
          IF pc[p] = "sleep" /\ sleepLeft[p] > 0 THEN sleepLeft[p] - 1 ELSE sleepLeft[p]]
    /\ pollTimer' = [p \in Callers |->
          IF pc[p] \in {"poll", "read"}
          THEN Sat(pollTimer[p] + 1, config.WaitForActiveTimeout) ELSE pollTimer[p]]
    /\ tickerPhase' = [p \in Callers |->
          IF pc[p] \in {"poll", "read"}
          THEN (tickerPhase[p] + 1) % config.WaitForActiveCheckInterval
          ELSE tickerPhase[p]]
    /\ tickerC' = [p \in Callers |->
          IF pc[p] \in {"poll", "read"}
             /\ (tickerPhase[p] + 1) % config.WaitForActiveCheckInterval = 0
          THEN TRUE ELSE tickerC[p]]
    /\ UNCHANGED <<config, scalingInProgress, targetCapacity, mu, providerVars, callVars,
                   startCapacity, firstObserved, lastReadStatus, lastReadCapacity,
                   readFresh, reads, added, removed, mutations,
                   rejectedAgainst, lastConverged>>
    /\ UNCHANGED <<statusVars, outerVars>>

\* ------------------------------------------------------------ specification
Next ==
    \/ \E p \in Callers, t \in 0..MaxTarget : Call(p, t)
    \/ \E p \in Callers : Cancel(p)
    \/ \E p \in Callers : Guard(p)
    \/ \E p \in Callers : Reject(p)
    \/ \E p \in Callers : Loop(p)
    \/ \E p \in Callers : Wake(p)
    \/ \E p \in Callers : PollCancelled(p)
    \/ \E p \in Callers : PollTimeout(p)
    \/ \E p \in Callers : PollTick(p)
    \/ \E p \in Callers, resp \in Statuses \cup {ReadError} : ReadReturn(p, resp)
    \/ \E p \in Callers : Decide(p)
    \/ \E p \in Callers, ok \in BOOLEAN : MutateReturn(p, ok)
    \/ \E p \in Callers : Panic(p)
    \/ \E p \in Callers : Record(p)
    \/ \E p \in Callers : DeferLock(p)
    \/ \E p \in Callers : DeferUnlock(p)
    \/ Tick(FALSE)

Spec == Init /\ [][Next]_vars

\* A provider that applies every request, reports ACTIVE at every read and
\* is read before the poll times out, and callers that never cancel.
\* A goroutine that can run again and again does run: sync.RWMutex does not
\* starve a waiter (strong fairness of its steps, some of which wait for
\* a.mu).  Time goes on: no infinite sequence of calls happens within one
\* unit of time (strong fairness of Tick, which waits for the goroutines
\* that can run).
NextLive ==
    \/ \E p \in Callers, t \in 0..MaxTarget : Call(p, t)
    \/ \E p \in Callers : Guard(p)
    \/ \E p \in Callers : Reject(p)
    \/ \E p \in Callers : Loop(p)
    \/ \E p \in Callers : Wake(p)
    \/ \E p \in Callers : PollTick(p)
    \/ \E p \in Callers : ReadReturn(p, ACTIVE)
    \/ \E p \in Callers : Decide(p)
    \/ \E p \in Callers : MutateReturn(p, TRUE)
    \/ \E p \in Callers : Record(p)
    \/ \E p \in Callers : DeferLock(p)
    \/ \E p \in Callers : DeferUnlock(p)
    \/ Tick(TRUE)

Run(p) ==
    \/ Guard(p) \/ Reject(p) \/ Loop(p) \/ Wake(p) \/ PollTick(p)
    \/ ReadReturn(p, ACTIVE) \/ Decide(p) \/ MutateReturn(p, TRUE)
    \/ Record(p) \/ DeferLock(p) \/ DeferUnlock(p)

LiveSpec ==
    /\ Init
    /\ [][NextLive]_vars
    /\ \A p \in Callers : SF_vars(Run(p))
    /\ SF_vars(Tick(TRUE))

\* A provider that answers every read but reports neither ACTIVE nor FAILED
\* (or fails the read), and callers that never cancel.  Goroutines that can
\* run do run and time goes on, as in LiveSpec; the select of
\* waitForActiveState picks at random among its ready cases, so a timeout
\* that is ready again and again is taken (strong fairness of PollTimeout).
NonTerminalResponses == {STARTING, PAUSED, UNKNOWN, ReadError}

NextPoll ==
    \/ \E p \in Callers, t \in 0..MaxTarget : Call(p, t)
    \/ \E p \in Callers : Guard(p)
    \/ \E p \in Callers : Reject(p)
    \/ \E p \in Callers : Loop(p)
    \/ \E p \in Callers : PollTimeout(p)
    \/ \E p \in Callers : PollTick(p)
    \/ \E p \in Callers, resp \in NonTerminalResponses : ReadReturn(p, resp)
    \/ \E p \in Callers : DeferLock(p)
    \/ \E p \in Callers : DeferUnlock(p)
    \/ Tick(TRUE)

RunPoll(p) ==
    \/ Guard(p) \/ Reject(p) \/ Loop(p) \/ PollTick(p)
    \/ \E resp \in NonTerminalResponses : ReadReturn(p, resp)
    \/ DeferLock(p) \/ DeferUnlock(p)

PollSpec ==
    /\ Init
    /\ [][NextPoll]_vars
    /\ \A p \in Callers : SF_vars(RunPoll(p))
    /\ \A p \in Callers : SF_vars(PollTimeout(p))
    /\ SF_vars(Tick(TRUE))

\* The health poll under every order of its two timers: configurations with
\* WaitForActiveTimeout shorter than, equal to and longer than
\* WaitForActiveCheckInterval (the cooldown and the step do not act in a
\* poll that never gets a capacity).  Provider, callers and fairness as in
\* PollSpec.
TimerConfigs ==
    [CooldownDuration : {0},
     Steps : {1},
     WaitForActiveTimeout : 1..MaxTimeout,
     WaitForActiveCheckInterval : 1..MaxInterval,
     DryRun : {FALSE}]

TimerSpec ==
    /\ InitOf(TimerConfigs)
    /\ [][NextPoll]_vars
    /\ \A p \in Callers : SF_vars(RunPoll(p))
    /\ \A p \in Callers : SF_vars(PollTimeout(p))
    /\ SF_vars(Tick(TRUE))

\* An Autoscaler over a ClientImpl in dry-run mode (config.DryRun true, as
\* main.go builds both from the same Config): every GetCurrentCapacity
\* returns the canned response, whatever the provider's instance is.
\* Callers never cancel (scaleHandler passes context.Background()); targets
\* include the canned capacity itself.  Fairness as in PollSpec.  The steps
\* after a poll that returned a capacity (Decide, MutateReturn, Record) are
\* not steps of this specification: C35 states that none of them is ever
\* enabled.
DryRunTargets == 0..MaxTarget \cup {DryRunCapacity}

\* the read of a ClientImpl in dry-run mode returns the canned response
DryRunRead(p) ==
    ReadReturnOf(p, CannedResponse(GetCurrentCapacityOp).Status,
                 CannedResponse(GetCurrentCapacityOp).CurrentCapacity)

NextDryRun ==
    \/ \E p \in Callers, t \in DryRunTargets : Call(p, t)
    \/ \E p \in Callers : Guard(p)
    \/ \E p \in Callers : Reject(p)
    \/ \E p \in Callers : Loop(p)
    \/ \E p \in Callers : PollTimeout(p)
    \/ \E p \in Callers : PollTick(p)
    \/ \E p \in Callers : DryRunRead(p)
    \/ \E p \in Callers : DeferLock(p)
    \/ \E p \in Callers : DeferUnlock(p)
    \/ Tick(TRUE)

RunDryRun(p) ==
    \/ Guard(p) \/ Reject(p) \/ Loop(p) \/ PollTick(p) \/ DryRunRead(p)
    \/ DeferLock(p) \/ DeferUnlock(p)

DryRunSpec ==
    /\ InitOf(ConfigsWith({TRUE}))
    /\ [][NextDryRun]_vars
    /\ \A p \in Callers : SF_vars(RunDryRun(p))
    /\ \A p \in Callers : SF_vars(PollTimeout(p))
    /\ SF_vars(Tick(TRUE))

\* GetStatus calls concurrent with the ScaleToTarget calls of one goroutine
\* (a second, rejected ScaleToTarget call writes nothing GetStatus reads)
Scaler == "c1"

NextStatus ==
    \/ \E t \in 0..MaxTarget : Call(Scaler, t)
    \/ Cancel(Scaler)
    \/ Guard(Scaler)
    \/ Loop(Scaler)
    \/ Wake(Scaler)
    \/ PollCancelled(Scaler)
    \/ PollTimeout(Scaler)
    \/ PollTick(Scaler)
    \/ \E resp \in Statuses \cup {ReadError} : ReadReturn(Scaler, resp)
    \/ Decide(Scaler)
    \/ \E ok \in BOOLEAN : MutateReturn(Scaler, ok)
    \/ Panic(Scaler)
    \/ Record(Scaler)
    \/ DeferLock(Scaler)
    \/ DeferUnlock(Scaler)
    \/ Tick(FALSE)
    \/ \E g \in StatusCallers : GetStatusCall(g)
    \/ \E g \in StatusCallers, resp \in StatusReadResponses :
          GetStatusReadReturn(g, resp)
    \/ \E g \in StatusCallers : GetStatusRLock(g)
    \/ \E g \in StatusCallers : GetStatusReturn(g)

StatusSpec == Init /\ [][NextStatus]_vars

\* Two ScaleToTarget callers and a GetStatus caller together, for one
\* configuration (one unit per step, a cooldown) and an instance that
\* starts empty
InitFrame ==
    /\ Init
    /\ config.Steps = 1
    /\ config.CooldownDuration = MaxCooldown
    /\ capacity = 0

NextFrame ==
    \/ \E p \in Callers, t \in 0..MaxTarget : Call(p, t)
    \/ \E p \in Callers : Cancel(p)
    \/ \E p \in Callers : Guard(p)
    \/ \E p \in Callers : Reject(p)
    \/ \E p \in Callers : Loop(p)
    \/ \E p \in Callers : Wake(p)
    \/ \E p \in Callers : PollCancelled(p)
    \/ \E p \in Callers : PollTimeout(p)
    \/ \E p \in Callers : PollTick(p)
    \/ \E p \in Callers, resp \in Statuses \cup {ReadError} : ReadReturn(p, resp)
    \/ \E p \in Callers : Decide(p)
    \/ \E p \in Callers, ok \in BOOLEAN : MutateReturn(p, ok)
    \/ \E p \in Callers : Panic(p)
    \/ \E p \in Callers : Record(p)
    \/ \E p \in Callers : DeferLock(p)
    \/ \E p \in Callers : DeferUnlock(p)
    \/ Tick(FALSE)
    \/ \E g \in StatusCallers : GetStatusCall(g)
    \/ \E g \in StatusCallers, resp \in {ACTIVE, ReadError} :
          GetStatusReadReturn(g, resp)
    \/ \E g \in StatusCallers : GetStatusRLock(g)
    \/ \E g \in StatusCallers : GetStatusReturn(g)

FrameSpec == InitFrame /\ [][NextFrame]_vars

\* POST /scale requests served one after another; the outcome of the
\* ScaleToTarget call of each is any of the errors ScaleToTarget returns
NextHandler ==
    \/ \E r \in Requests : ScaleHandler(r)
    \/ \E e \in ScaleToTargetErrors \cup {NoError} : ScaleToTargetReturn(e)
    \/ \E statusOK \in BOOLEAN : ScaleHandlerFailed(statusOK)
    \/ ScaleHandlerReturn

HandlerSpec == Init /\ [][NextHandler]_vars

\* calls of the methods of ClientImpl, one after another, in dry-run mode
\* and out of it, against a provider whose instance has some capacity
NextClient ==
    \/ \E op \in ClientOps, n \in 0..MaxSteps : ClientCall(op, n)
    \/ \E ok \in BOOLEAN, st \in Statuses : ProviderAnswer(ok, st)
    \/ ClientReturn

ClientSpec == InitOf(ConfigsWith(BOOLEAN)) /\ [][NextClient]_vars

\* the start of the controller in an environment that sets any of the
\* variables
NextConfig ==
    \/ \E k \in EnvNames : \E v \in EnvValues(k) : Setenv(k, v)
    \/ NewConfigFromEnv

ConfigSpec == Init /\ [][NextConfig]_vars

\* ------------------------------------------------------------------ claims
\* the states of a call that was admitted by the guard and has not returned
Admitted == {p \in Callers : pc[p] \in {"loop", "sleep", "poll", "read", "decide",
                "scaleUp", "scaleDown", "record", "deferLock", "deferUnlock"}}
\* a call that has an Add/Remove request outstanding
Mutating(p) == pc[p] \in {"scaleUp", "scaleDown"}
\* a call that is returning its result
Exiting(p) == pc[p] \in {"deferLock", "deferUnlock"}

\* C1: at most one ScaleToTarget call is past the entry guard at any time,
\* and a call that reaches the guard while no call is admitted is admitted.
C1_SingleFlight ==
    [][/\ Cardinality(Admitted') <= 1
       /\ \A p \in Callers :
            (pc[p] = "guard" /\ Admitted = {} /\ pc'[p] # "guard")
               => pc'[p] = "loop"]_vars

C1_Witness ==
    \E p, q \in Callers :
        /\ p # q
        /\ pc[p] \in {"sleep", "poll", "read", "scaleUp", "scaleDown"}
        /\ pc[q] = "guard"

\* C2: a call that finds another call in progress is rejected with the
\* 'already in progress' error, returns without waiting, and has issued no
\* GetCurrentCapacity, AddCapacity or RemoveCapacity call.
C2_RejectFast ==
    [][\A p \in Callers :
         /\ (pc[p] = "guard" /\ scalingInProgress /\ pc'[p] # "guard")
               => (pc'[p] = "reject" /\ result'[p] = ErrInProgress)
         /\ (pc[p] = "reject" /\ pc'[p] # "reject")
               => (pc'[p] = "idle" /\ capacity' = capacity)
         /\ pc'[p] = "reject" => (reads'[p] = 0 /\ mutations'[p] = 0)]_vars

C2_Witness ==
    \E p, q \in Callers :
        /\ p # q
        /\ pc[p] \in {"sleep", "poll"}
        /\ pc[q] = "reject"
        /\ result[q] = ErrInProgress

\* C3: with a provider that applies every request and reports ACTIVE, every
\* admitted ScaleToTarget(target) eventually returns success with the
\* provider capacity equal to target.
C3_Converges ==
    \A p \in Callers :
        (pc[p] = "loop") ~> (Exiting(p) /\ result[p] = OK /\ capacity = target[p])

\* C4: every Add/Remove request asks for min(Steps, |target - capacity
\* observed in this iteration|).
C4_StepNeverOvershoots ==
    \A p \in Callers :
        Mutating(p) =>
            amount[p] = Min2(config.Steps, Abs(target[p] - lastReadCapacity[p]))

\* C5: the mutations of a successful ScaleToTarget(target) all go towards the
\* target, each asks for at most Steps, their amounts sum to |target - start|
\* and the last capacity observed is target.
C5_SuccessfulRun ==
    \A p \in Callers :
        /\ Mutating(p) => amount[p] <= config.Steps
        /\ (Exiting(p) /\ result[p] = OK) =>
              /\ lastReadCapacity[p] = target[p]
              /\ startCapacity[p] <= target[p] =>
                    (removed[p] = 0 /\ added[p] = target[p] - startCapacity[p])
              /\ startCapacity[p] >= target[p] =>
                    (added[p] = 0 /\ removed[p] = startCapacity[p] - target[p])

C5_Witness ==
    \E p \in Callers :
        /\ Exiting(p)
        /\ result[p] = OK
        /\ config.Steps = 2
        /\ added[p] + removed[p] > config.Steps

\* C6: a RemoveCapacity request never asks for more than the capacity
\* observed in that iteration, and the provider capacity never goes below 0.
C6_RemoveCapped ==
    /\ capacity >= 0
    /\ \A p \in Callers :
          pc[p] = "scaleDown" => amount[p] <= lastReadCapacity[p]

C6_Witness ==
    \E p \in Callers :
        /\ pc[p] = "scaleDown"
        /\ lastReadCapacity[p] < config.Steps
        /\ amount[p] = lastReadCapacity[p]
        /\ target[p] = 0

\* C7: an Add/Remove request is issued only when no mutation of this
\* instance has succeeded yet or the last one succeeded at least
\* CooldownDuration ago, in every iteration of every call.
C7_CooldownGap ==
    [][\A p \in Callers :
         (pc[p] = "decide" /\ pc'[p] \in {"scaleUp", "scaleDown"})
            => (sinceMutation.isZero
                \/ sinceMutation.since >= config.CooldownDuration)]_vars

C7_Witness ==
    \E p \in Callers :
        /\ Mutating(p)
        /\ added[p] + removed[p] > 0
        /\ config.CooldownDuration > 0
        /\ ~sinceMutation.isZero

\* C8: an Add/Remove request is issued right after a read of this iteration
\* that reported ACTIVE, and its direction and amount come from the capacity
\* of that read.
C8_FreshRead ==
    [][\A p \in Callers :
         (pc[p] # pc'[p] /\ pc'[p] \in {"scaleUp", "scaleDown"})
            => /\ readFresh[p]
               /\ lastReadStatus[p] = ACTIVE
               /\ lastReadCapacity[p] = capacity
               /\ lastReadCapacity[p] # target[p]
               /\ (pc'[p] = "scaleUp") = (lastReadCapacity[p] < target[p])
               /\ pc'[p] = "scaleDown"
                     => amount'[p] = Min2(config.Steps, lastReadCapacity[p])]_vars

C8_Witness ==
    \E p \in Callers :
        /\ Mutating(p)
        /\ added[p] + removed[p] > 0
        /\ lastReadCapacity[p] # startCapacity[p]

\* C9: a read that reports FAILED ends the poll and the call at once with
\* the 'instance is in FAILED state' error, and no mutation follows it.
C9_FailedState ==
    [][\A p \in Callers :
         /\ (pc[p] = "read" /\ lastReadStatus'[p] = FAILED)
               => /\ pc'[p] = "deferLock"
                  /\ result'[p] = ErrFailedState
                  /\ mutations'[p] = mutations[p]
         /\ (Exiting(p) /\ result[p] = ErrFailedState)
               => (pc'[p] \in {"deferLock", "deferUnlock", "idle"}
                   /\ capacity' = capacity)]_vars

C9_Witness ==
    \E p \in Callers :
        /\ Exiting(p)
        /\ result[p] = ErrFailedState
        /\ lastReadStatus[p] = FAILED

\* C10: when the first health poll of a call observes the target capacity,
\* the call returns success and issues no Add/Remove request.
C10_AlreadyAtTarget ==
    \A p \in Callers :
        (firstObserved[p] # NoCapacity /\ firstObserved[p] = target[p]) =>
            /\ mutations[p] = 0
            /\ pc[p] \in {"decide", "deferLock", "deferUnlock"}
            /\ pc[p] # "decide" => result[p] = OK

C10_Witness ==
    \E p \in Callers :
        /\ Exiting(p)
        /\ result[p] = OK
        /\ firstObserved[p] = target[p]
        /\ target[p] > 0

\* C11: a ScaleToTarget(target) admitted after a call with the same target
\* returned success, with no mutation in between, issues no Add/Remove
\* request, leaves the capacity at target and returns success when its read
\* reports ACTIVE.
C11_Idempotent ==
    \A p \in Admitted :
        (lastConverged # NoCapacity /\ lastConverged = target[p]) =>
            /\ mutations[p] = 0
            /\ capacity = target[p]
            /\ Exiting(p) => result[p] \notin {ErrAddCapacity, ErrRemoveCapacity}
            /\ (Exiting(p) /\ lastReadStatus[p] = ACTIVE) => result[p] = OK

C11_Witness ==
    \E p \in Callers :
        /\ Exiting(p)
        /\ result[p] = OK
        /\ lastConverged = target[p]
        /\ target[p] > 0
        /\ reads[p] > 0

\* C12: scalingInProgress is true exactly while an admitted call has not
\* returned: it is set when the guard admits a call and it is false once
\* that call has returned, by whatever path (success, poll failure, timeout,
\* cancellation, mutation failure, panic); a call that reaches the guard
\* after that is admitted.
C12_Lifecycle ==
    [][/\ scalingInProgress <=> (Admitted # {})
       /\ scalingInProgress' <=> (Admitted' # {})
       /\ \A p \in Callers :
            /\ (p \in Admitted /\ p \notin Admitted')
                  => (pc'[p] = "idle" /\ ~scalingInProgress')
            /\ (pc[p] = "guard" /\ ~scalingInProgress /\ pc'[p] # "guard")
                  => (pc'[p] = "loop" /\ scalingInProgress')]_vars

C12_Witness ==
    \E p \in Callers :
        /\ lastConverged # NoCapacity
        /\ pc[p] = "deferUnlock"
        /\ result[p] = ErrPanic
        /\ scalingInProgress

\* C13: the error of a rejected call carries the target that was in flight
\* when the guard rejected it (the value line 58 formats is a.targetCapacity
\* as it is when the rejected call returns).
C13_ConflictTarget ==
    [][\A p \in Callers :
         (pc[p] = "reject" /\ pc'[p] = "idle")
            => targetCapacity = rejectedAgainst[p]]_vars

\* C14: a GetStatus snapshot taken while an admitted ScaleToTarget(t) has
\* not returned reports ScalingInProgress = true and TargetCapacity = t.
C14_StatusDuringRun ==
    \A g \in StatusCallers, p \in Admitted :
        status[g] # NoSnapshot =>
            /\ status[g].ScalingInProgress
            /\ status[g].TargetCapacity = target[p]

C14_Witness ==
    \E g \in StatusCallers, p \in Callers :
        /\ status[g] # NoSnapshot
        /\ pc[p] = "deferLock"
        /\ target[p] > 0
        /\ status[g].TargetCapacity = target[p]

\* C15: scalingInProgress = false implies targetCapacity = 0 in every
\* state; the flag and the target change only in a step of the goroutine
\* that holds the write lock; and no GetStatus snapshot shows
\* ScalingInProgress = false with a non-zero TargetCapacity.
C15_NoStaleTarget ==
    [][/\ ~scalingInProgress => targetCapacity = 0
       /\ ~scalingInProgress' => targetCapacity' = 0
       /\ (scalingInProgress' # scalingInProgress \/ targetCapacity' # targetCapacity)
             => (mu # NoOne /\ muReaders = {} /\ pc'[mu] # pc[mu])
       /\ \A g \in StatusCallers :
             status'[g] # NoSnapshot =>
                (~status'[g].ScalingInProgress => status'[g].TargetCapacity = 0)]_vars

C15_Witness ==
    \E g \in StatusCallers :
        /\ status[g] # NoSnapshot
        /\ ~status[g].ScalingInProgress
        /\ lastConverged # NoCapacity
        /\ lastConverged > 0

\* C16: a GetStatus call issues exactly one GetCurrentCapacity call and no
\* Add/Remove request, changes neither scalingInProgress, targetCapacity,
\* lastActionTime nor the provider capacity, and when its read fails it
\* returns that error and no snapshot.
C16_GetStatusFrame ==
    [][\A g \in StatusCallers :
         /\ (spc'[g] # spc[g] \/ status'[g] # status[g])
               => UNCHANGED <<scalingInProgress, targetCapacity, lastActionTime,
                              capacity, mu>>
         /\ spc'[g] \in {"statusRead", "statusRLock", "statusReturn"}
               => statusReads'[g] = 1
         /\ capacityRead'[g].Status = ReadError
               => /\ spc'[g] = "statusReturn"
                  /\ statusErr'[g] = ErrProvider
                  /\ status'[g] = NoSnapshot
                  /\ g \notin muReaders'
         /\ statusErr'[g] = OK
               => /\ status'[g] # NoSnapshot
                  /\ status'[g].CurrentCapacity \in 0..MaxCapacity]_vars

C16_Witness ==
    \E g \in StatusCallers :
        /\ spc[g] = "statusReturn"
        /\ statusErr[g] = ErrProvider
        /\ scalingInProgress

\* C17: the write lock is held only by a goroutine at the guard or in the
\* deferred function, never by one that sleeps, waits in the poll or has a
\* provider call outstanding; the read lock is held by GetStatus only
\* while it builds and returns its snapshot; so a GetStatus call waiting
\* for the read lock waits for a holder whose next step releases it.
C17_NoLockAcrossWaits ==
    /\ mu # NoOne => pc[mu] \in {"guard", "deferUnlock"}
    /\ \A p \in Callers :
          pc[p] \in {"sleep", "poll", "read", "scaleUp", "scaleDown"} => mu # p
    /\ \A g \in StatusCallers :
          /\ g \in muReaders => spc[g] = "statusReturn"
          /\ (spc[g] = "statusRLock" /\ mu # NoOne)
                => ENABLED (Guard(mu) \/ DeferUnlock(mu))

C17_Witness ==
    \E g \in StatusCallers, p \in Callers :
        /\ g \in muReaders
        /\ status[g] # NoSnapshot
        /\ pc[p] = "sleep"
        /\ sleepLeft[p] > 0

\* the first capacity read of a call is being answered
FirstRead(p) ==
    pc[p] = "read" /\ lastReadStatus[p] = NoStatus /\ mutations[p] = 0

C19_ReadErrorsRetried ==
    /\ [][\A p \in Callers :
            /\ (pc[p] = "read" /\ pc'[p] # "read" /\ lastReadStatus'[p] = ReadError)
                  => (pc'[p] = "poll" /\ result'[p] = NoResult)
            /\ (pc[p] = "poll" /\ lastReadStatus[p] = ReadError /\ pc'[p] # "poll")
                  => \/ pc'[p] = "read" /\ tickerC[p]
                     \/ /\ pc'[p] = "deferLock"
                        /\ result'[p] \in {ErrTimeout, ErrCancelled}
                        /\ mutations'[p] = 0]_vars
    /\ \A p \in Callers :
          (pc[p] = "poll" /\ lastReadStatus[p] = ReadError)
             ~> (Exiting(p) /\ result[p] = ErrTimeout /\ mutations[p] = 0)

C19_Witness ==
    \E p \in Callers :
        /\ Exiting(p)
        /\ result[p] = ErrTimeout
        /\ lastReadStatus[p] = ReadError
        /\ reads[p] > 0

C21_PollWaitsForActive ==
    [][\A p \in Callers :
         /\ (pc[p] = "read" /\ pc'[p] # "read"
                /\ lastReadStatus'[p] \in {STARTING, PAUSED, UNKNOWN}
                /\ result'[p] # ErrPanic)
               => /\ pc'[p] = "poll"
                  /\ result'[p] = NoResult
                  /\ currentCapacity'[p] = currentCapacity[p]
                  /\ mutations'[p] = mutations[p]
         /\ (pc[p] = "poll" /\ pc'[p] = "read")
               => (tickerC[p] /\ ~tickerC'[p])
         /\ (pc[p] = "read" /\ lastReadStatus'[p] = ACTIVE)
               => /\ pc'[p] = "decide"
                  /\ currentCapacity'[p] = capacity
                  /\ lastReadCapacity'[p] = capacity]_vars

C21_Witness ==
    \E p \in Callers :
        /\ pc[p] = "read"
        /\ lastReadStatus[p] \in {STARTING, PAUSED, UNKNOWN}
        /\ result[p] = NoResult
        /\ pollTimer[p] > 0

\* C22: a call whose context is cancelled while it sleeps out the cooldown
\* leaves the sleep by returning the cancellation error; it does not go on
\* into the health poll.
C22_CancelEndsCooldownWait ==
    [][\A p \in Callers :
         (pc[p] = "sleep" /\ ctxDone[p] /\ pc'[p] # "sleep")
            => (pc'[p] = "deferLock" /\ result'[p] = ErrCancelled)]_vars

\* C23: a health poll whose context is cancelled while it waits (no tick
\* buffered, timeout not fired) can only return, and it returns the
\* context's cancellation error, which is neither the FAILED-state error
\* nor the timeout error; the cancellation error is returned only for a
\* cancelled context, and ScaleToTarget returns it, issuing nothing more.
C23_PollCancelled ==
    [][\A p \in Callers :
         /\ (pc[p] = "poll" /\ ctxDone[p] /\ ~tickerC[p]
                /\ ~TimedOut(pollTimer[p], config.WaitForActiveTimeout))
               => /\ ENABLED PollCancelled(p)
                  /\ pc'[p] # pc[p]
                        => /\ pc'[p] = "deferLock"
                           /\ result'[p] = ErrCancelled
                           /\ result'[p] \notin {ErrFailedState, ErrTimeout}
         /\ (result[p] # ErrCancelled /\ result'[p] = ErrCancelled)
               => (pc[p] = "poll" /\ ctxDone[p] /\ pc'[p] = "deferLock")
         /\ (Exiting(p) /\ result[p] = ErrCancelled)
               => /\ pc'[p] \in {"deferLock", "deferUnlock", "idle"}
                  /\ pc'[p] # "idle" => result'[p] = ErrCancelled
                  /\ capacity' = capacity]_vars

C23_Witness ==
    \E p \in Callers :
        /\ Exiting(p)
        /\ result[p] = ErrCancelled
        /\ ctxDone[p]
        /\ lastReadStatus[p] \in {STARTING, PAUSED, UNKNOWN}

\* the value a.lastActionTime has right after lastActionTime = time.Now()
Now == [isZero |-> FALSE, since |-> 0]

\* C24: a.lastActionTime is written only by the call whose AddCapacity or
\* RemoveCapacity request has just succeeded, as that call's next step (the
\* passing of time ages the timestamp, it does not write it); a step that
\* sets an error (failed mutation, FAILED read, timeout, cancellation,
\* rejection), a step of a rejected call and a step of GetStatus leave it
\* as it is.
C24_LastActionTimeFrame ==
    [][/\ \/ lastActionTime' = lastActionTime
          \/ /\ lastActionTime' = Age(lastActionTime, config.CooldownDuration)
             /\ pc' = pc
             /\ spc' = spc
          \/ \E p \in Callers :
                /\ pc[p] = "record"
                /\ pc'[p] = "loop"
                /\ result[p] = NoResult
                /\ lastActionTime' = Now
       /\ \A p \in Callers :
            /\ (pc[p] # "record" /\ pc'[p] = "record")
                  => /\ Mutating(p)
                     /\ amount[p] >= 1
                     /\ capacity' = IF pc[p] = "scaleUp" THEN capacity + amount[p]
                                                         ELSE capacity - amount[p]
            /\ (pc[p] = "record" /\ pc'[p] # "record") => lastActionTime' = Now
            /\ result'[p] # result[p] => lastActionTime' = lastActionTime
            /\ (pc[p] \in {"guard", "reject"} /\ pc'[p] # pc[p])
                  => lastActionTime' = lastActionTime
       /\ \A g \in StatusCallers :
            (spc'[g] # spc[g]) => lastActionTime' = lastActionTime]_vars

\* a mutation has failed after an earlier one was recorded, while a
\* GetStatus call returns its snapshot and a second call is being rejected
C24_Witness ==
    \E p, q \in Callers, g \in StatusCallers :
        /\ pc[p] = "reject"
        /\ Exiting(q)
        /\ result[q] \in {ErrAddCapacity, ErrRemoveCapacity}
        /\ spc[g] = "statusReturn"
        /\ status[g] # NoSnapshot
        /\ ~lastActionTime.isZero
        /\ status[g].LastActionTime = lastActionTime

\* C25: an AddCapacity or RemoveCapacity request that fails (the provider
\* applies nothing) ends the call at once: its next state is the return
\* with the error of its direction ('failed to add capacity' or 'failed to
\* remove capacity'), set by no other step, and from there on the call
\* issues no read and no request and the capacity stays as it is.
C25_MutationErrorReturns ==
    [][\A p \in Callers :
         /\ (Mutating(p) /\ pc'[p] # pc[p])
               => \/ /\ pc'[p] = "record"
                     /\ capacity' # capacity
                     /\ result'[p] = NoResult
                  \/ /\ pc'[p] = "deferLock"
                     /\ capacity' = capacity
                     /\ lastActionTime' = lastActionTime
                     /\ result'[p] \in {ErrPanic,
                           IF pc[p] = "scaleUp" THEN ErrAddCapacity
                                                ELSE ErrRemoveCapacity}
         /\ (result'[p] # result[p]
                /\ result'[p] \in {ErrAddCapacity, ErrRemoveCapacity})
               => (Mutating(p) /\ pc'[p] = "deferLock")
         /\ (Exiting(p) /\ result[p] \in {ErrAddCapacity, ErrRemoveCapacity})
               => /\ pc'[p] \in {"deferLock", "deferUnlock", "idle"}
                  /\ capacity' = capacity
                  /\ pc'[p] # "idle"
                        => /\ result'[p] = result[p]
                           /\ reads'[p] = reads[p]
                           /\ mutations'[p] = mutations[p]]_vars

C25_Witness ==
    \E p \in Callers :
        /\ pc[p] = "deferUnlock"
        /\ result[p] = ErrRemoveCapacity
        /\ amount[p] >= 1
        /\ capacity > target[p]
        /\ removed[p] > 0

\* C26: the handler answers a ScaleToTarget failure with 409 Conflict when
\* the failure is 'scaling operation already in progress' and with 500 for
\* every other failure.
C26_ConflictIs409 ==
    (hpc = "done" /\ scaleErr # NoError) =>
        httpStatus = IF scaleErr.kind = ErrInProgress
                     THEN StatusConflict
                     ELSE StatusInternalServerError

\* C27: every GetStatus snapshot has InCooldownPeriod = true exactly when
\* the lastActionTime it carries is non-zero and less than CooldownDuration
\* old, with CooldownRemaining = CooldownDuration minus that age (a positive
\* time); otherwise InCooldownPeriod = false and CooldownRemaining = 0; and
\* CooldownRemaining is never negative.
C27_CooldownFields ==
    \A g \in StatusCallers :
        status[g] # NoSnapshot =>
            LET st == status[g]
                elapsed == st.LastActionTime.since
                within == ~st.LastActionTime.isZero /\ elapsed < config.CooldownDuration
            IN /\ st.InCooldownPeriod <=> within
               /\ within => /\ st.CooldownRemaining = config.CooldownDuration - elapsed
                            /\ st.CooldownRemaining > 0
               /\ ~within => st.CooldownRemaining = 0
               /\ st.CooldownRemaining >= 0

C27_Witness ==
    \E g \in StatusCallers :
        /\ status[g] # NoSnapshot
        /\ status[g].InCooldownPeriod
        /\ status[g].LastActionTime.since = 1
        /\ status[g].CooldownRemaining = config.CooldownDuration - 1
        /\ status[g].ScalingInProgress

\* C28: in dry-run mode no step of a ClientImpl method sends a request or
\* changes the provider's capacity: GetCurrentCapacity, AddCapacity and
\* RemoveCapacity each return at once, with a nil error and their canned
\* response (for the read: empty status, capacity 10).
C28_DryRunFrame ==
    [][config.DryRun =>
          /\ capacity' = capacity
          /\ sent' = 0
          /\ cpc' # "sent"
          /\ \A op \in ClientOps :
                (cpc = "idle" /\ cpc' # "idle" /\ clientReq'.op = op)
                   => /\ cpc' = "returned"
                      /\ clientResp'.err = OK
                      /\ op = GetCurrentCapacityOp
                            => /\ clientResp'.Status = EmptyStatus
                               /\ clientResp'.CurrentCapacity = DryRunCapacity]_vars

C28_Witness ==
    /\ config.DryRun
    /\ cpc = "returned"
    /\ clientReq.op = RemoveCapacityOp
    /\ clientReq.amount > capacity
    /\ clientResp.err = OK
    /\ sent = 0

\* C29: a configuration loaded with DRY_RUN=true in the environment has
\* DryRun = true, and one loaded with DRY_RUN unset has DryRun = false.
C29_DryRunFromEnv ==
    (loaded # NotLoaded /\ loaded.err = OK) =>
        /\ env["DRY_RUN"] = "true" => loaded.cfg.DryRun
        /\ env["DRY_RUN"] = "" => ~loaded.cfg.DryRun

\* C30: loading returns an error for a step size that is not greater than 0
\* and for a check interval that is not greater than 0, so a loaded
\* configuration has Steps > 0 and WaitForActiveCheckInterval > 0.
C30_RejectsNonPositive ==
    loaded # NotLoaded =>
        /\ (Atoi(env["AUTOSCALER_STEPS"]).ok
               /\ Atoi(env["AUTOSCALER_STEPS"]).val <= 0) => loaded.err # OK
        /\ (Atoi(env["AUTOSCALER_WAIT_FOR_ACTIVE_CHECK_INTERVAL"]).ok
               /\ Atoi(env["AUTOSCALER_WAIT_FOR_ACTIVE_CHECK_INTERVAL"]).val <= 0)
              => loaded.err # OK
        /\ loaded.err = OK =>
              /\ loaded.cfg.Steps > 0
              /\ loaded.cfg.WaitForActiveCheckInterval > 0

\* C31: an iteration that observed a capacity other than the target issues
\* exactly one request: AddCapacity exactly when observed < target,
\* RemoveCapacity exactly when observed > target; a request is issued only
\* from the decision that follows a read, and after it the iteration ends
\* (or the call returns), so no iteration issues two.
C31_OneMutationPerIteration ==
    [][\A p \in Callers :
         /\ (pc[p] = "decide" /\ pc'[p] # "decide"
                /\ lastReadCapacity[p] # target[p])
               => /\ pc'[p] \in {"scaleUp", "scaleDown"}
                  /\ (pc'[p] = "scaleUp") <=> (lastReadCapacity[p] < target[p])
                  /\ (pc'[p] = "scaleDown") <=> (lastReadCapacity[p] > target[p])
         /\ (pc'[p] # pc[p] /\ Mutating(p)')
               => pc[p] = "decide"
         /\ (pc'[p] # pc[p] /\ Mutating(p))
               => pc'[p] \in {"record", "deferLock"}
         /\ (pc'[p] # pc[p] /\ pc'[p] = "decide")
               => pc[p] = "read"
         /\ (pc'[p] # pc[p] /\ pc[p] = "record")
               => pc'[p] = "loop"]_vars

C31_Witness ==
    \E p \in Callers :
        /\ pc[p] = "scaleDown"
        /\ lastReadCapacity[p] > target[p]
        /\ added[p] > 0
        /\ removed[p] = 0

\* the cooldown of the instance's most recent successful mutation is over
\* (or no mutation has succeeded yet)
CooldownOver ==
    sinceMutation.isZero \/ sinceMutation.since >= config.CooldownDuration

\* C32: no provider call of ScaleToTarget, a read included, is outstanding
\* while the cooldown of the most recent successful mutation runs; a call
\* that finds the cooldown running at the top of an iteration sleeps for
\* what is left of it before it polls; and a call returns success only
\* when the cooldown of its last mutation is over.
C32_QuietDuringCooldown ==
    [][\A p \in Callers :
         /\ pc'[p] \in {"read", "scaleUp", "scaleDown"} => CooldownOver'
         /\ (pc[p] = "poll" /\ pc'[p] = "read") => CooldownOver
         /\ (pc[p] = "loop" /\ pc'[p] # "loop" /\ ~CooldownOver)
               => /\ pc'[p] = "sleep"
                  /\ sleepLeft'[p] >= config.CooldownDuration - sinceMutation.since
         /\ (pc[p] = "sleep" /\ pc'[p] # "sleep") => CooldownOver
         /\ (Exiting(p)' /\ result'[p] = OK) => CooldownOver']_vars

C32_Witness ==
    \E p \in Callers :
        /\ Exiting(p)
        /\ result[p] = OK
        /\ added[p] + removed[p] > 0
        /\ config.CooldownDuration > 0
        /\ sinceMutation.since = config.CooldownDuration

\* C33: the steps of a call that the guard rejects (the rejection under the
\* lock and the return) leave scalingInProgress true, targetCapacity at the
\* target of the run in flight and lastActionTime as it was; the rejected
\* call returns without running the deferred function that clears the flag.
C33_RejectionFrame ==
    [][\A p \in Callers :
         /\ (pc[p] = "guard" /\ scalingInProgress /\ pc'[p] # "guard")
               => /\ pc'[p] = "reject"
                  /\ scalingInProgress'
                  /\ targetCapacity' = targetCapacity
                  /\ lastActionTime' = lastActionTime
                  /\ \E q \in Admitted : q # p /\ targetCapacity' = target[q]
         /\ (pc[p] = "reject" /\ pc'[p] # "reject")
               => /\ pc'[p] = "idle"
                  /\ scalingInProgress' = scalingInProgress
                  /\ targetCapacity' = targetCapacity
                  /\ lastActionTime' = lastActionTime
         /\ (result'[p] = ErrInProgress) => pc'[p] = "reject"]_vars

C33_Witness ==
    \E p, q \in Callers :
        /\ pc[p] = "reject"
        /\ Mutating(q)
        /\ scalingInProgress
        /\ targetCapacity = target[q]
        /\ target[q] > 0
        /\ ~lastActionTime.isZero

\* C34: a call returns success only from the decision that follows its
\* latest read, and that read reported ACTIVE with a capacity equal to the
\* target of the call; the answer to an Add/Remove request never makes the
\* call return success.
C34_SuccessAfterActiveRead ==
    [][\A p \in Callers :
         /\ (result'[p] = OK /\ result[p] # OK)
               => /\ pc[p] = "decide"
                  /\ readFresh[p]
                  /\ reads[p] > 0
         /\ (Mutating(p) \/ pc[p] = "record") => result'[p] # OK
         /\ result'[p] = OK
               => /\ lastReadStatus'[p] = ACTIVE
                  /\ lastReadCapacity'[p] = target'[p]
                  /\ Exiting(p)']_vars

C34_Witness ==
    \E p \in Callers :
        /\ pc[p] = "deferUnlock"
        /\ result[p] = OK
        /\ lastReadStatus[p] = ACTIVE
        /\ lastReadCapacity[p] = target[p]
        /\ removed[p] > 0
        /\ capacity = target[p]


\* C35: with dry-run enabled every read returns the canned response (empty
\* status, capacity 10), so no call ever gets a capacity from the health
\* poll: in every reachable state no call has succeeded, none is at the
\* comparison with the target or has an Add/Remove request outstanding or
\* counted; an admitted call leaves only with the timeout error, and every
\* admitted call does so, whatever its target (the canned capacity 10
\* included).
C35_DryRunTimesOut ==
    /\ [](\A p \in Callers :
            /\ result[p] # OK
            /\ ~Mutating(p)
            /\ ~ENABLED Decide(p)
            /\ ~ENABLED MutateReturn(p, TRUE)
            /\ ~ENABLED Record(p)
            /\ mutations[p] = 0 /\ added[p] = 0 /\ removed[p] = 0
            /\ lastReadStatus[p] \in {NoStatus, EmptyStatus}
            /\ lastReadCapacity[p] \in {NoCapacity, DryRunCapacity})
    /\ [][\A p \in Callers :
            /\ (p \in Admitted /\ ~Exiting(p) /\ Exiting(p)')
                  => result'[p] = ErrTimeout
            /\ capacity' = capacity]_vars
    /\ \A p \in Callers :
          (pc[p] = "loop") ~> (Exiting(p) /\ result[p] = ErrTimeout)

C35_Witness ==
    \E p \in Callers :
        /\ config.DryRun
        /\ Exiting(p)
        /\ result[p] = ErrTimeout
        /\ target[p] = DryRunCapacity
        /\ lastReadStatus[p] = EmptyStatus
        /\ lastReadCapacity[p] = DryRunCapacity
        /\ reads[p] > 0


\* C36: no tick is waiting when a health poll starts; a tick arrives only
\* when a whole check interval has passed since the start or since the tick
\* before; a read is sent only by taking a tick, the first one no earlier
\* than one check interval after the start.  With WaitForActiveTimeout
\* shorter than WaitForActiveCheckInterval no read is ever sent, and every
\* poll ends with the timeout error.
C36_FirstReadAfterInterval ==
    /\ [][\A p \in Callers :
            /\ (pc[p] \notin {"poll", "read"} /\ pc'[p] = "poll")
                  => /\ ~tickerC'[p]
                     /\ tickerPhase'[p] = 0
                     /\ pollTimer'[p] = 0
            /\ (tickerC'[p] /\ ~tickerC[p])
                  => /\ pc[p] \in {"poll", "read"}
                     /\ tickerPhase[p] = config.WaitForActiveCheckInterval - 1
                     /\ tickerPhase'[p] = 0
            /\ (pc[p] # "read" /\ pc'[p] = "read")
                  => /\ pc[p] = "poll"
                     /\ tickerC[p]
                     /\ reads[p] = 0
                           => pollTimer[p] >= config.WaitForActiveCheckInterval]_vars
    /\ [](\A p \in Callers :
            config.WaitForActiveTimeout < config.WaitForActiveCheckInterval
               => (pc[p] # "read" /\ reads[p] = 0))
    /\ \A p \in Callers :
          (/\ pc[p] = "poll"
           /\ config.WaitForActiveTimeout < config.WaitForActiveCheckInterval)
             ~> (Exiting(p) /\ result[p] = ErrTimeout /\ reads[p] = 0)

C36_Witness ==
    \E p \in Callers :
        /\ config.WaitForActiveTimeout < config.WaitForActiveCheckInterval
        /\ Exiting(p)
        /\ result[p] = ErrTimeout
        /\ reads[p] = 0
        /\ lastReadStatus[p] = NoStatus


\* C37: with Steps >= 1 and targets >= 0, every AddCapacity / RemoveCapacity
\* request of ScaleToTarget asks for at least 1 (scaleUp for Steps,
\* scaleDown for at most the capacity it read, which is above the target),
\* so ClientImpl sends it to the provider, and a request that succeeds
\* changes the provider's capacity by that amount.
C37_AmountPositive ==
    /\ [](\A p \in Callers :
            Mutating(p)
               => /\ config.Steps >= 1 /\ target[p] >= 0
                  /\ amount[p] >= 1
                  /\ pc[p] = "scaleUp"
                        => SendsRequest(config.DryRun, AddCapacityOp, amount[p])
                  /\ pc[p] = "scaleDown"
                        => /\ SendsRequest(config.DryRun, RemoveCapacityOp, amount[p])
                           /\ amount[p] <= currentCapacity[p])
    /\ [][\A p \in Callers :
            (Mutating(p) /\ pc'[p] = "record")
               => /\ capacity' # capacity
                  /\ Abs(capacity' - capacity) = amount[p]]_vars

C37_Witness ==
    \E p \in Callers :
        /\ pc[p] = "record"
        /\ removed[p] = 1
        /\ amount[p] = 1
        /\ config.Steps = 2
        /\ currentCapacity[p] = 1
        /\ target[p] = 0
        /\ capacity = 0


\* C38: an AddCapacity or RemoveCapacity call with amount 0 returns at once
\* with a nil error and the canned response; from its entry to its return
\* no request is sent and the provider's capacity stays as it is (with
\* dry-run off as with dry-run on).
C38_ZeroAmountFrame ==
    /\ []((/\ clientReq # NoCall
           /\ clientReq.op \in {AddCapacityOp, RemoveCapacityOp}
           /\ clientReq.amount = 0)
             => /\ cpc = "returned"
                /\ sent = 0
                /\ clientResp = CannedResponse(clientReq.op)
                /\ clientResp.err = OK)
    /\ [][(\/ /\ clientReq # NoCall
              /\ clientReq.op \in {AddCapacityOp, RemoveCapacityOp}
              /\ clientReq.amount = 0
           \/ /\ clientReq' # NoCall
              /\ clientReq'.op \in {AddCapacityOp, RemoveCapacityOp}
              /\ clientReq'.amount = 0)
             => /\ capacity' = capacity
                /\ sent' = 0
                /\ cpc' # "sent"]_vars

C38_Witness ==
    /\ ~config.DryRun
    /\ cpc = "returned"
    /\ clientReq.op = RemoveCapacityOp
    /\ clientReq.amount = 0
    /\ clientResp.err = OK
    /\ sent = 0
    /\ capacity > 0

====
